---------------------------- MODULE Spec2Model ----------------------------
(***************************************************************************)
(* Model of pubsub.py (Thierry46/pubsub v0.4): the brokers PubSub and      *)
(* PubSubPriority (class PubSubBase), their per-subscriber queues          *)
(* ChanelQueue / ChanelPriorityQueue and the ordering helper OrderedDict.  *)
(*                                                                         *)
(* Threads call subscribe, unsubscribe, publish and listen concurrently.   *)
(* One action is one atomic step of a call: a step reads or writes the     *)
(* shared state (self.channels, self.count, the two locks, one queue) at   *)
(* most once, except where the text below argues that a longer step has    *)
(* the same interleavings.                                                 *)
(*                                                                         *)
(* History variables (not fields of the program): npub, returned and got,  *)
(* the fields pub, gone and old of a thread's frame, the field pub of a    *)
(* message and the fields old and yielded of a queue.  They                *)
(* record which publish a message comes from, which calls had ended when   *)
(* another started and what a subscriber has drained.  No action of the    *)
(* program reads them.                                                     *)
(***************************************************************************)
EXTENDS Integers, Sequences, FiniteSets, TLC

VARIABLES
    max_queue_in_a_channel, \* PubSubBase.max_queue_in_a_channel
    max_id_4_a_channel,     \* PubSubBase.max_id_4_a_channel
    is_priority_queue,      \* TRUE: the broker is a PubSubPriority
    channels,               \* self.channels: channel -> list of queues
    count,                  \* self.count: channel -> last id
    channels_lock,          \* holder of self.channels_lock, or NoThread
    count_lock,             \* holder of self.count_lock, or NoThread
    queues,                 \* the queue objects created so far
    pc,                     \* each thread's position
    local,                  \* each thread's arguments and local variables
    npub,                   \* history: publishes that advanced each counter
    returned,               \* history: the publishes that have returned
    got                     \* history: the entries pulled from each queue

vars == <<max_queue_in_a_channel, max_id_4_a_channel, is_priority_queue,
          channels, count, channels_lock, count_lock, queues, pc, local,
          npub, returned, got>>

config == <<max_queue_in_a_channel, max_id_4_a_channel, is_priority_queue>>
locks == <<channels_lock, count_lock>>
history == <<npub, returned, got>>

---------------------------------------------------------------------------
(* Bounds of the model *)

\* the threads of the embedding application
Threads == {"t1", "t2"}
\* the value of the constructor argument max_queue_in_a_channel
QueueCapacity == 2
\* the value of the constructor argument max_id_4_a_channel
IdWraparound == 3
\* publish calls and subscribe calls that may start in one behaviour
MaxPublishes == 2
MaxQueues == 2
\* the same for the specification of the counter's wraparound, and its
\* value of max_id_4_a_channel
WrapPublishes == 3
WrapQueues == 1
WrapId == 2
\* the publishes of the sender of a PubSubPriority broker
PriorityPublishes == 5
\* a max_id_4_a_channel its counter does not reach (the default is 2**31)
PriorityId == 5
\* the same with a counter that wraps around
PriorityWrapPublishes == 3
PriorityWrapId == 2
\* the sender and listener of a PubSub broker whose queues overflow
OverflowPublishes == 4
OverflowQueues == 2
\* the accepted publishes and subscribes of threads that also pass
\* arguments the calls reject
ArgPublishes == 2
ArgQueues == 1
\* the publishes and queues of a listener that drains its queues
DrainPublishes == 2
DrainQueues == 1
\* the publishes and queues of a broker of either class
EitherPublishes == 2
EitherQueues == 1
\* the publishes and queues of a broker with two channels
TwoPublishes == 2
TwoQueues == 2
\* the publishes and queues of a listener that unsubscribes through its
\* queues, on two channels
HandlePublishes == 1
HandleQueues == 2
\* the publishes and queues of threads that race to create a channel
CreatePublishes == 1
CreateQueues == 2
\* the publishes and queues of a broker of either class whose publishes
\* all have the default priority
EqualPublishes == 3
EqualQueues == 1
\* the messages of the sender of tests/test_PubSub_load.py, the last one
\* being 'End', and the messages of the sender of the other channel
LoadMessages == 2
OtherMessages == 1
\* the accepted publishes of a sender whose priorities are negative, 0
\* or positive
SignPublishes == 2
\* the publishes of the sender of a PubSubPriority broker whose queue
\* overflows
FullPublishes == 3
\* the publishes and queues of two threads that make every call on two
\* channels
MixPublishes == 1
MixQueues == 2
\* the publishes and queues of two threads that contend for the locks
LockPublishes == 2
LockQueues == 1
\* the default max_queue_in_a_channel of PubSubBase.__init__
DefaultCapacity == 100

NoThread == "nobody"
\* Python's None, for a channel or a payload
None == "None"
\* Python's None, for a queue handle (the queue objects are 1, 2, ...)
NoQueue == 0
\* the valid channel names offered to the calls
Channels == {"a"}
\* a second channel, and the channel names of a broker with two channels
OtherChannel == "b"
AllChannels == Channels \cup {OtherChannel}
\* the payload each thread publishes
PayloadOf == [t \in Threads |-> IF t = "t1" THEN "x" ELSE "y"]
\* the priority PubSub.publish passes to publish_
DefaultPriority == 100
\* the priorities PubSubPriority.publish is called with
Priorities == {25, 50, 200, 400}

\* a test that lets the empty string through
IsNone(v) == v = None

\* a test that lets None through
IsEmpty(v) == v = ""

\* Python truthiness of an argument: None and the empty string are falsy
Falsy(v) == v \in {None, ""}

\* a thread's frame: the arguments and local variables of the call it is
\* in (warned: the queues this publish has warned about), and the history
\* fields pub (this publish is the pub-th of its channel), gone (the
\* queues that were unsubscribed when this publish started) and old (the
\* publishes that had returned when this subscribe started)
NoLocal == [channel |-> None, message |-> None, priority |-> 0, id |-> 0,
            idx |-> 0, channel_queue |-> NoQueue, block |-> FALSE,
            warned |-> {}, pub |-> 0, gone |-> {}, old |-> {}]

---------------------------------------------------------------------------
(* OrderedDict and the entries of a ChanelPriorityQueue *)

\* dict.__eq__ of two messages {'data': .., 'id': ..}
DictEq(a, b) == a.data = b.data /\ a.id = b.id

\* a comparison that prefers the higher id
OrderedDictGt(a, b) == a.id > b.id

\* OrderedDict.__lt__
OrderedDictLt(a, b) == a.id < b.id

\* a comparison that, of two entries of one priority, prefers the later
EntryLtLaterFirst(a, b) ==
    IF a[1] # b[1] THEN a[1] < b[1] ELSE a[2].id > b[2].id

\* (priority, OrderedDict) < (priority, OrderedDict): Python compares
\* tuples on the first position where the two differ (by ==)
EntryLt(a, b) ==
    IF a[1] # b[1] THEN a[1] < b[1]
    ELSE IF ~DictEq(a[2], b[2]) THEN OrderedDictLt(a[2], b[2])
    ELSE FALSE

\* heapq._siftdown(heap, startpos, pos), on a 1-based sequence, newitem
\* being the item that travels up
RECURSIVE SiftDown(_, _, _, _)
SiftDown(heap, startpos, pos, newitem) ==
    IF pos > startpos /\ EntryLt(newitem, heap[pos \div 2])
    THEN SiftDown([heap EXCEPT ![pos] = heap[pos \div 2]], startpos,
                  pos \div 2, newitem)
    ELSE [heap EXCEPT ![pos] = newitem]

\* heapq.heappush
HeapPush(heap, item) ==
    SiftDown(Append(heap, item), 1, Len(heap) + 1, item)

\* heapq._siftup(heap, pos): the smaller child moves up until a leaf
RECURSIVE SiftUp(_, _, _, _)
SiftUp(heap, startpos, pos, newitem) ==
    LET childpos == 2 * pos
        rightpos == childpos + 1
        c == IF rightpos <= Len(heap)
                /\ ~EntryLt(heap[childpos], heap[rightpos])
             THEN rightpos ELSE childpos
    IN IF childpos <= Len(heap)
       THEN SiftUp([heap EXCEPT ![pos] = heap[c]], startpos, c, newitem)
       ELSE SiftDown([heap EXCEPT ![pos] = newitem], startpos, pos, newitem)

\* heapq.heappop: the heap that is left (the item returned is heap[1])
HeapPop(heap) ==
    LET lastelt == heap[Len(heap)]
        rest == SubSeq(heap, 1, Len(heap) - 1)
    IN IF rest = <<>> THEN rest ELSE SiftUp(rest, 1, 1, lastelt)

---------------------------------------------------------------------------
(* The queue objects *)

\* a queue that starts with the entries pending in the channel's first
\* subscriber queue
NewQueueWithBacklog(channel, old) ==
    [name |-> channel,
     items |-> IF channel \in DOMAIN channels /\ channels[channel] # <<>>
               THEN queues[channels[channel][1]].items ELSE <<>>,
     old |-> old, yielded |-> -1]

\* ChanelQueue.__init__ / ChanelPriorityQueue.__init__: an unbounded
\* queue.Queue (maxsize 0) that remembers its channel.  History: old, the
\* publishes that had returned when the subscribe call that made the queue
\* started; yielded, the number of messages the queue had yielded when it
\* was unsubscribed (-1 before)
NewQueue(channel, old) ==
    [name |-> channel, items |-> <<>>, old |-> old, yielded |-> -1]

\* Queue.qsize()
qsize(q) == Len(queues[q].items)

\* the entry publish_ builds for one queue
Entry(message, priority) ==
    IF is_priority_queue THEN <<priority, message>> ELSE message

\* a put into a queue that also leaves the entry in the queue made first
publish_put_astray(t) ==
    /\ pc[t] = "publish_put"
    /\ LET q == local[t].channel_queue
           e == IF is_priority_queue
                THEN <<local[t].priority,
                       [data |-> local[t].message, id |-> local[t].id,
                        pub |-> local[t].pub]>>
                ELSE [data |-> local[t].message, id |-> local[t].id,
                      pub |-> local[t].pub]
       IN queues' = [r \in DOMAIN queues |->
              IF r = q \/ r = 1
              THEN [queues[r] EXCEPT !.items = Append(@, e)]
              ELSE queues[r]]
    /\ pc' = [pc EXCEPT ![t] = "publish_loop"]
    /\ UNCHANGED <<config, channels, count, locks, local, history>>

\* a put that adds the entry twice
QueuePutTwice(items, entry) == Append(Append(items, entry), entry)

\* Queue._put / PriorityQueue._put
QueuePut(items, entry) ==
    IF is_priority_queue THEN HeapPush(items, entry) ELSE Append(items, entry)

\* a get that leaves the entry it returns in the queue
QueueKept(items) == items

\* Queue._get / PriorityQueue._get: the entry returned, the entries left
QueueHead(items) == items[1]
QueueRest(items) ==
    IF is_priority_queue THEN HeapPop(items) ELSE Tail(items)

\* what listen yields for an entry: data, or priority_data[1]
Yielded(entry) == IF is_priority_queue THEN entry[2] ELSE entry

---------------------------------------------------------------------------
(* PubSubBase.__init__ *)

InitBroker(priority, capacity, wraparound) ==
    /\ max_queue_in_a_channel = capacity
    /\ max_id_4_a_channel = wraparound
    /\ is_priority_queue = priority
    /\ channels = <<>>
    /\ count = <<>>
    /\ channels_lock = NoThread
    /\ count_lock = NoThread
    /\ queues = <<>>
    /\ pc = [t \in Threads |-> "idle"]
    /\ local = [t \in Threads |-> NoLocal]
    /\ npub = [c \in AllChannels |-> 0]
    /\ returned = {}
    /\ got = <<>>

\* a PubSub broker
Init == InitBroker(FALSE, QueueCapacity, IdWraparound)

\* a thread that is in no call of the broker
\* ("..._raised": the call has raised ValueError, at its argument checks
\* or, "remove_raised", in list.remove; the frame keeps its arguments)
Outside(t) ==
    pc[t] \in {"idle", "publish_raised", "subscribe_raised",
               "unsubscribe_raised", "remove_raised"}

Goto(t, label) == pc' = [pc EXCEPT ![t] = label]

InList(list, x) == \E i \in 1..Len(list) : list[i] = x

\* the queues in the subscriber list of a channel
Listed(channel) ==
    IF channel \in DOMAIN channels
    THEN {channels[channel][i] : i \in 1..Len(channels[channel])}
    ELSE {}

\* history: the queues whose unsubscribe call has completed
Unsubscribed(q) == queues[q].yielded >= 0
Gone == {q \in DOMAIN queues : Unsubscribed(q)}

---------------------------------------------------------------------------
(* PubSubBase.publish_ *)

\* a counter that never wraps around
NextCountUnbounded(channel) ==
    IF channel \notin DOMAIN count THEN 0 ELSE count[channel] + 1

\* the counter after one more publish (lines 242-246)
NextCount(channel) ==
    IF channel \notin DOMAIN count THEN 0
    ELSE (count[channel] + 1) % max_id_4_a_channel

\* a test that also rejects the priority 0
NotPositive(priority) == priority <= 0

\* line 226: if priority < 0
Negative(priority) == priority < 0

\* lines 226-233: the checks of the arguments, then the unlocked test of
\* the channel's existence
publish_(t, channel, message, priority) ==
    /\ Outside(t)
    /\ IF Negative(priority) \/ Falsy(channel) \/ Falsy(message)
       THEN /\ Goto(t, "publish_raised")
            /\ local' = [local EXCEPT ![t] =
                   [NoLocal EXCEPT !.channel = channel, !.message = message,
                                   !.priority = priority]]
       ELSE /\ local' = [local EXCEPT ![t] =
                   [NoLocal EXCEPT !.channel = channel, !.message = message,
                                   !.priority = priority, !.gone = Gone]]
            /\ Goto(t, IF channel \notin DOMAIN channels
                       THEN "publish_lock" ELSE "publish_count")
    /\ UNCHANGED <<config, channels, count, locks, queues, history>>

\* a creation that empties the list of every channel
WithChannelCleared(channel) ==
    [c \in DOMAIN channels \cup {channel} |-> <<>>]

\* a creation without the second test: the channel gets a new list
WithChannelUnchecked(channel) ==
    [c \in DOMAIN channels \cup {channel} |->
        IF c = channel THEN <<>> ELSE channels[c]]

\* the channel -> [] entry that lines 171-172 and 236-237 add
WithChannel(channel) ==
    IF channel \notin DOMAIN channels
    THEN [c \in DOMAIN channels \cup {channel} |->
             IF c = channel THEN <<>> ELSE channels[c]]
    ELSE channels

\* lines 234-237: channels_lock.acquire(), the second test, the creation.
\* Every write of the keys of self.channels holds the lock, so no step of
\* another thread can separate the acquire from the guarded statements.
publish_create(t) ==
    /\ pc[t] = "publish_lock"
    /\ channels_lock = NoThread
    /\ channels_lock' = t
    /\ channels' = WithChannel(local[t].channel)
    /\ Goto(t, "publish_unlock")
    /\ UNCHANGED <<config, count, count_lock, queues, local, history>>

\* a publish that goes on to the counter with channels_lock held
publish_unlock_held(t) ==
    /\ pc[t] = "publish_unlock"
    /\ Goto(t, "publish_count")
    /\ UNCHANGED <<config, channels, count, locks, queues, local, history>>

\* line 238
publish_unlock(t) ==
    /\ pc[t] = "publish_unlock"
    /\ channels_lock' = NoThread
    /\ Goto(t, "publish_count")
    /\ UNCHANGED <<config, channels, count, count_lock, queues, local,
                   history>>

\* lines 241-246: count_lock.acquire() and the update of the counter
publish_count(t) ==
    /\ pc[t] = "publish_count"
    /\ count_lock = NoThread
    /\ count_lock' = t
    /\ LET c == local[t].channel
       IN /\ count' = [k \in DOMAIN count \cup {c} |->
                          IF k = c THEN NextCount(c) ELSE count[k]]
          /\ npub' = [npub EXCEPT ![c] = @ + 1]
          /\ local' = [local EXCEPT ![t].pub = npub[c]]
    /\ Goto(t, "publish_uncount")
    /\ UNCHANGED <<config, channels, channels_lock, queues, returned, got>>

\* a publish that goes on to the loop with count_lock held
publish_uncount_held(t) ==
    /\ pc[t] = "publish_uncount"
    /\ Goto(t, "publish_id")
    /\ UNCHANGED <<config, channels, count, locks, queues, local, history>>

\* line 247
publish_uncount(t) ==
    /\ pc[t] = "publish_uncount"
    /\ count_lock' = NoThread
    /\ Goto(t, "publish_id")
    /\ UNCHANGED <<config, channels, count, channels_lock, queues, local,
                   history>>

\* the value line 250 reads
ReadId(t) == count[local[t].channel]

\* line 250: _id = self.count[channel], read after the lock was released;
\* line 253: the iterator over the channel's list starts at index 0
publish_id(t) ==
    /\ pc[t] = "publish_id"
    /\ local' = [local EXCEPT ![t].id = ReadId(t), ![t].idx = 0]
    /\ Goto(t, "publish_loop")
    /\ UNCHANGED <<config, channels, count, locks, queues, history>>

\* the overflow test of a queue that holds one message at most
OverflowedByOne(q) == qsize(q) >= 1

\* an overflow test that counts every message the queue has ever received
OverflowedForGood(q) == Len(got[q]) + qsize(q) >= max_queue_in_a_channel

\* line 255: the overflow test of one queue
Overflowed(q) == qsize(q) >= max_queue_in_a_channel

\* a warning that ends the publish call
AbortAfterWarning == "idle"

\* after the warning of lines 256-259 the loop goes on with the next queue
AfterWarning == "publish_loop"

\* a loop that, for a full priority queue, puts the message in the place
\* of the entry at the end of the heap
publish_next_evicting(t) ==
    /\ pc[t] = "publish_loop"
    /\ LET subscribers == channels[local[t].channel]
           i == local[t].idx + 1
       IN IF i > Len(subscribers)
          THEN /\ Goto(t, "idle")
               /\ local' = [local EXCEPT ![t] = NoLocal]
               /\ returned' = returned \cup
                                 {<<local[t].channel, local[t].pub>>}
               /\ UNCHANGED queues
          ELSE IF Overflowed(subscribers[i])
          THEN /\ Goto(t, AfterWarning)
               /\ local' = [local EXCEPT ![t].idx = i,
                               ![t].channel_queue = subscribers[i],
                               ![t].warned = @ \cup {subscribers[i]}]
               /\ queues' = [queues EXCEPT ![subscribers[i]].items =
                      IF is_priority_queue
                      THEN HeapPush(SubSeq(@, 1, Len(@) - 1),
                                    <<local[t].priority,
                                      [data |-> local[t].message,
                                       id |-> local[t].id,
                                       pub |-> local[t].pub]>>)
                      ELSE @]
               /\ UNCHANGED returned
          ELSE /\ Goto(t, "publish_put")
               /\ local' = [local EXCEPT ![t].idx = i,
                               ![t].channel_queue = subscribers[i]]
               /\ UNCHANGED <<returned, queues>>
    /\ UNCHANGED <<config, channels, count, locks, npub, got>>

\* lines 253-259: the list iterator's next element (the list is the live
\* one: the iterator holds an index into it), the overflow test and the
\* warning.  Fetching the element and reading qsize() are one step: the
\* steps of other threads that change the list do not change a queue's
\* size and those that change a queue's size do not change the list.
publish_next(t) ==
    /\ pc[t] = "publish_loop"
    /\ LET subscribers == channels[local[t].channel]
           i == local[t].idx + 1
       IN IF i > Len(subscribers)
          THEN /\ Goto(t, "idle")
               /\ local' = [local EXCEPT ![t] = NoLocal]
               /\ returned' = returned \cup
                                 {<<local[t].channel, local[t].pub>>}
          ELSE IF Overflowed(subscribers[i])
          THEN /\ Goto(t, AfterWarning)
               /\ local' = [local EXCEPT ![t].idx = i,
                               ![t].channel_queue = subscribers[i],
                               ![t].warned = @ \cup {subscribers[i]}]
               /\ UNCHANGED returned
          ELSE /\ Goto(t, "publish_put")
               /\ local' = [local EXCEPT ![t].idx = i,
                               ![t].channel_queue = subscribers[i]]
               /\ UNCHANGED returned
    /\ UNCHANGED <<config, channels, count, locks, queues, npub, got>>

\* a message whose id is read from the counter when the message is built
MessageOfCounter(t) ==
    [data |-> local[t].message, id |-> count[local[t].channel],
     pub |-> local[t].pub]

\* the message of this publish: {'data': message, 'id': _id}
Message(t) ==
    [data |-> local[t].message, id |-> local[t].id, pub |-> local[t].pub]

\* a put that waits for space in a queue bounded by max_queue_in_a_channel
publish_put_blocking(t) ==
    /\ pc[t] = "publish_put"
    /\ qsize(local[t].channel_queue) < max_queue_in_a_channel
    /\ LET q == local[t].channel_queue
       IN queues' = [queues EXCEPT ![q].items =
              QueuePut(@, Entry(Message(t), local[t].priority))]
    /\ Goto(t, "publish_loop")
    /\ UNCHANGED <<config, channels, count, locks, local, history>>

\* lines 262-270: channel_queue.put(..., block=False) on an unbounded queue
publish_put(t) ==
    /\ pc[t] = "publish_put"
    /\ LET q == local[t].channel_queue
       IN queues' = [queues EXCEPT ![q].items =
              QueuePut(@, Entry(Message(t), local[t].priority))]
    /\ Goto(t, "publish_loop")
    /\ UNCHANGED <<config, channels, count, locks, local, history>>

---------------------------------------------------------------------------
(* PubSubBase.subscribe_ *)

\* lines 165-168
subscribe_(t, channel) ==
    /\ Outside(t)
    /\ IF Falsy(channel)
       THEN /\ Goto(t, "subscribe_raised")
            /\ local' = [local EXCEPT ![t] =
                   [NoLocal EXCEPT !.channel = channel]]
       ELSE /\ local' = [local EXCEPT ![t] =
                   [NoLocal EXCEPT !.channel = channel, !.old = returned]]
            /\ Goto(t, IF channel \notin DOMAIN channels
                       THEN "subscribe_lock" ELSE "subscribe_append")
    /\ UNCHANGED <<config, channels, count, locks, queues, history>>

\* lines 169-172
subscribe_create(t) ==
    /\ pc[t] = "subscribe_lock"
    /\ channels_lock = NoThread
    /\ channels_lock' = t
    /\ channels' = WithChannel(local[t].channel)
    /\ Goto(t, "subscribe_unlock")
    /\ UNCHANGED <<config, count, count_lock, queues, local, history>>

\* line 173
subscribe_unlock(t) ==
    /\ pc[t] = "subscribe_unlock"
    /\ channels_lock' = NoThread
    /\ Goto(t, "subscribe_append")
    /\ UNCHANGED <<config, channels, count, count_lock, queues, local,
                   history>>

\* lines 175-182: the new queue object (the next unused identity) and
\* list.append
subscribe_append(t) ==
    /\ pc[t] = "subscribe_append"
    /\ LET q == Len(queues) + 1
           c == local[t].channel
       IN /\ queues' = Append(queues, NewQueue(c, local[t].old))
          /\ got' = Append(got, <<>>)
          /\ channels' = [channels EXCEPT ![c] = Append(@, q)]
    /\ Goto(t, "idle")
    /\ local' = [local EXCEPT ![t] = NoLocal]
    /\ UNCHANGED <<config, count, locks, npub, returned>>

---------------------------------------------------------------------------
(* PubSubBase.unsubscribe *)

\* a remove that empties the list
RemoveAll(list, x) == <<>>

\* a remove that takes the first queue of the list, whichever it is
RemoveFirst(list, x) == Tail(list)

\* list.remove(x): the list without the first occurrence of x
RECURSIVE Remove(_, _)
Remove(list, x) ==
    IF list = <<>> THEN <<>>
    ELSE IF Head(list) = x THEN Tail(list)
    ELSE <<Head(list)>> \o Remove(Tail(list), x)

\* lines 190-195.  A channel is never removed from self.channels, so the
\* test of line 194 and the remove of line 195 are one step.  list.remove
\* raises ValueError when the queue is not in the list: the call ends at
\* "remove_raised".
unsubscribe(t, channel, message_queue) ==
    /\ Outside(t)
    /\ IF Falsy(channel) \/ message_queue = NoQueue
       THEN /\ Goto(t, "unsubscribe_raised")
            /\ local' = [local EXCEPT ![t] =
                   [NoLocal EXCEPT !.channel = channel,
                                   !.channel_queue = message_queue]]
            /\ UNCHANGED <<channels, queues>>
       ELSE IF channel \notin DOMAIN channels
       THEN /\ Goto(t, "idle")
            /\ local' = [local EXCEPT ![t] = NoLocal]
            /\ UNCHANGED <<channels, queues>>
       ELSE IF ~InList(channels[channel], message_queue)
       THEN /\ Goto(t, "remove_raised")
            /\ local' = [local EXCEPT ![t] = NoLocal]
            /\ UNCHANGED <<channels, queues>>
       ELSE /\ Goto(t, "idle")
            /\ local' = [local EXCEPT ![t] = NoLocal]
            /\ channels' = [channels EXCEPT
                               ![channel] = Remove(@, message_queue)]
            /\ queues' = [queues EXCEPT ![message_queue].yielded =
                             Len(got[message_queue])]
    /\ UNCHANGED <<config, count, locks, history>>

\* a method that passes a fixed channel instead of the queue's own
queue_unsubscribe_other(t, q) == unsubscribe(t, OtherChannel, q)

\* ChanelQueue.unsubscribe: self.parent.unsubscribe(self.name, self)
queue_unsubscribe(t, q) == unsubscribe(t, queues[q].name, q)

---------------------------------------------------------------------------
(* ChanelQueue.listen / ChanelPriorityQueue.listen *)

\* a pull that waits for an entry whatever block is
GetBlocking(t, q, block) ==
    /\ queues[q].items # <<>>
    /\ queues' = [queues EXCEPT ![q].items = QueueRest(@)]
    /\ got' = [got EXCEPT ![q] = Append(@, QueueHead(queues[q].items))]
    /\ Goto(t, "listen")
    /\ local' = [local EXCEPT ![t] =
           [NoLocal EXCEPT !.channel_queue = q, !.block = block]]

\* one self.get(block, timeout) of the generator and what follows it: the
\* yield of the entry, or the return on queue.Empty.  A blocking get with
\* no timeout waits while the queue is empty.
Get(t, q, block) ==
    IF queues[q].items # <<>>
    THEN /\ queues' = [queues EXCEPT ![q].items = QueueRest(@)]
         /\ got' = [got EXCEPT ![q] =
                       Append(@, QueueHead(queues[q].items))]
         /\ Goto(t, "listen")
         /\ local' = [local EXCEPT ![t] =
                [NoLocal EXCEPT !.channel_queue = q, !.block = block]]
    ELSE /\ ~block
         /\ Goto(t, "idle")
         /\ local' = [local EXCEPT ![t] = NoLocal]
         /\ UNCHANGED <<queues, got>>

\* lines 316-323 / 351-360: the first pull of a listen call
listen(t, q, block) ==
    /\ Outside(t)
    /\ Get(t, q, block)
    /\ UNCHANGED <<config, channels, count, locks, npub, returned>>

\* the next pull, when the consumer asks the generator for one more
listen_next(t) ==
    /\ pc[t] = "listen"
    /\ Get(t, local[t].channel_queue, local[t].block)
    /\ UNCHANGED <<config, channels, count, locks, npub, returned>>

\* the consumer drops the generator (next(q.listen()) takes one message)
listen_close(t) ==
    /\ pc[t] = "listen"
    /\ Goto(t, "idle")
    /\ local' = [local EXCEPT ![t] = NoLocal]
    /\ UNCHANGED <<config, channels, count, locks, queues, history>>

---------------------------------------------------------------------------
(* The calls the threads may make *)

\* the priority a publish call of this broker's class may pass
PriorityArgs == IF is_priority_queue THEN Priorities ELSE {DefaultPriority}

\* the handles subscribe has returned
Handles == DOMAIN queues

RECURSIVE Sum(_, _)
Sum(f, S) ==
    IF S = {} THEN 0
    ELSE LET x == CHOOSE x \in S : TRUE IN f[x] + Sum(f, S \ {x})

\* the calls of publish and subscribe that have started
Published ==
    Sum(npub, AllChannels)
    + Cardinality({t \in Threads :
                      pc[t] \in {"publish_lock", "publish_unlock",
                                 "publish_count"}})
Subscribed ==
    Len(queues)
    + Cardinality({t \in Threads :
                      pc[t] \in {"subscribe_lock", "subscribe_unlock",
                                 "subscribe_append"}})

\* the steps of thread t inside a publish or a subscribe call
BrokerStep(t) ==
    \/ publish_create(t)
    \/ publish_unlock(t)
    \/ publish_count(t)
    \/ publish_uncount(t)
    \/ publish_id(t)
    \/ publish_next(t)
    \/ publish_put(t)
    \/ subscribe_create(t)
    \/ subscribe_unlock(t)
    \/ subscribe_append(t)

\* the steps of thread t inside a listen call
ListenStep(t) ==
    \/ listen_next(t)
    \/ listen_close(t)

\* a publish call by thread t, of at most pubs in all
Publish(t, pubs) ==
    /\ Published < pubs
    /\ \E c \in Channels, p \in PriorityArgs :
           publish_(t, c, PayloadOf[t], p)

\* a subscribe call by thread t, of at most subs in all
Subscribe(t, subs) ==
    /\ Subscribed < subs
    /\ \E c \in Channels : subscribe_(t, c)

\* an unsubscribe call by thread t, on the broker or on the queue
Unsubscribe(t) ==
    \/ \E c \in Channels, q \in Handles : unsubscribe(t, c, q)
    \/ \E q \in Handles : queue_unsubscribe(t, q)

\* a listen(block=False) call by thread t
Listen(t) == \E q \in Handles : listen(t, q, FALSE)

\* two threads that publish, subscribe and unsubscribe
Next ==
    \E t \in Threads :
        \/ BrokerStep(t)
        \/ Publish(t, MaxPublishes)
        \/ Subscribe(t, MaxQueues)
        \/ Unsubscribe(t)

\* two such threads and a PubSub broker
Spec == Init /\ [][Next]_vars

\* the same with a counter that wraps around at WrapId
InitWrap == InitBroker(FALSE, QueueCapacity, WrapId)
NextWrap ==
    \E t \in Threads :
        \/ BrokerStep(t)
        \/ Publish(t, WrapPublishes)
        \/ Subscribe(t, WrapQueues)
        \/ Unsubscribe(t)
SpecWrap == InitWrap /\ [][NextWrap]_vars

\* the sender and the listener threads of tests/test_PubSub_load.py
Sender == "t1"
Listener == "t2"

\* the arguments of threads that also pass empty and None values and a
\* negative priority
ChannelArgs == Channels \cup {"", None}
MessageArgs(t) == {PayloadOf[t], "", None}
PriorityValues == {-1, 0, DefaultPriority}
QueueArgs == Handles \cup {NoQueue}

\* a sender that calls publish and a listener that calls subscribe and
\* unsubscribe of a PubSubPriority() broker with such arguments (the
\* bounds count the calls on a valid channel)
InitArgs == InitBroker(TRUE, DefaultCapacity, PriorityId)
NextArgs ==
    \/ BrokerStep(Sender)
    \/ \E c \in ChannelArgs, msg \in MessageArgs(Sender),
          p \in PriorityValues :
           /\ Published < ArgPublishes \/ c \notin Channels
           /\ publish_(Sender, c, msg, p)
    \/ BrokerStep(Listener)
    \/ \E c \in ChannelArgs :
           /\ Subscribed < ArgQueues \/ c \notin Channels
           /\ subscribe_(Listener, c)
    \/ \E c \in ChannelArgs, q \in QueueArgs : unsubscribe(Listener, c, q)
SpecArgs == InitArgs /\ [][NextArgs]_vars

\* two threads that publish and subscribe, where no queue is ever read
\* or unsubscribed, and every thread that is inside a call and can take a
\* step eventually takes one (the interpreter schedules every thread, and
\* Lock.acquire returns once the lock is free)
NextFull ==
    \E t \in Threads :
        \/ BrokerStep(t)
        \/ Publish(t, WrapPublishes)
        \/ Subscribe(t, WrapQueues)
LiveFull ==
    /\ InitWrap
    /\ [][NextFull]_vars
    /\ \A t \in Threads : WF_vars(BrokerStep(t))

\* a sender thread that publishes and a listener thread that subscribes,
\* listens and unsubscribes
NextListener ==
    \/ BrokerStep(Sender) \/ Publish(Sender, MaxPublishes)
    \/ BrokerStep(Listener) \/ Subscribe(Listener, MaxQueues)
    \/ Unsubscribe(Listener)
    \/ ListenStep(Listener) \/ Listen(Listener)
SpecListener == Init /\ [][NextListener]_vars

\* the one subscribe call of a thread that subscribes once
SubscribeOnce(t) ==
    /\ Subscribed = 0
    /\ \E c \in Channels : subscribe_(t, c)

\* the sender and the listener of a broker that is a PubSub or a
\* PubSubPriority
InitEither ==
    \E priority \in BOOLEAN :
        InitBroker(priority, QueueCapacity, IdWraparound)
NextEither ==
    \/ BrokerStep(Sender) \/ Publish(Sender, EitherPublishes)
    \/ BrokerStep(Listener) \/ Subscribe(Listener, EitherQueues)
    \/ Unsubscribe(Listener)
    \/ ListenStep(Listener) \/ Listen(Listener)
SpecEither == InitEither /\ [][NextEither]_vars

\* a sender, and a listener whose listen calls run until the queue is
\* empty: msgs = list(q.listen(block=False))
NextDrain ==
    \/ BrokerStep(Sender) \/ Publish(Sender, DrainPublishes)
    \/ BrokerStep(Listener) \/ Subscribe(Listener, DrainQueues)
    \/ Unsubscribe(Listener)
    \/ listen_next(Listener) \/ Listen(Listener)
SpecDrain == Init /\ [][NextDrain]_vars

\* a sender, and a listener that subscribes once and does not unsubscribe
SenderListener(pubs) ==
    \/ BrokerStep(Sender) \/ Publish(Sender, pubs)
    \/ BrokerStep(Listener) \/ SubscribeOnce(Listener)
    \/ ListenStep(Listener) \/ Listen(Listener)

\* the sender and the listener of a PubSubPriority() broker
InitPriority == InitBroker(TRUE, DefaultCapacity, PriorityId)
NextPriority == SenderListener(PriorityPublishes)
SpecPriority == InitPriority /\ [][NextPriority]_vars

\* the same with a counter that wraps around at PriorityWrapId
InitPriorityWrap == InitBroker(TRUE, DefaultCapacity, PriorityWrapId)
NextPriorityWrap == SenderListener(PriorityWrapPublishes)
SpecPriorityWrap == InitPriorityWrap /\ [][NextPriorityWrap]_vars

\* the sender and the listener of a PubSub broker whose queues hold
\* QueueCapacity messages
NextOverflow ==
    \/ BrokerStep(Sender) \/ Publish(Sender, OverflowPublishes)
    \/ BrokerStep(Listener) \/ Subscribe(Listener, OverflowQueues)
    \/ ListenStep(Listener) \/ Listen(Listener)
SpecOverflow == Init /\ [][NextOverflow]_vars

\* a sender that publishes on two channels and a listener that subscribes
\* to them and reads its queues
NextTwo ==
    \/ BrokerStep(Sender)
    \/ /\ Published < TwoPublishes
       /\ \E c \in AllChannels :
              publish_(Sender, c, PayloadOf[Sender], DefaultPriority)
    \/ BrokerStep(Listener)
    \/ /\ Subscribed < TwoQueues
       /\ \E c \in AllChannels : subscribe_(Listener, c)
    \/ ListenStep(Listener) \/ Listen(Listener)
SpecTwo == Init /\ [][NextTwo]_vars

\* a sender that publishes on two channels and a listener that subscribes
\* to them and unsubscribes, through the broker (with either channel) or
\* through the queue
NextHandle ==
    \/ BrokerStep(Sender)
    \/ /\ Published < HandlePublishes
       /\ \E c \in AllChannels :
              publish_(Sender, c, PayloadOf[Sender], DefaultPriority)
    \/ BrokerStep(Listener)
    \/ /\ Subscribed < HandleQueues
       /\ \E c \in AllChannels : subscribe_(Listener, c)
    \/ \E c \in AllChannels, q \in Handles : unsubscribe(Listener, c, q)
    \/ \E q \in Handles : queue_unsubscribe(Listener, q)
SpecHandle == Init /\ [][NextHandle]_vars

\* two threads that subscribe, publish and unsubscribe on a channel the
\* broker does not know at first
NextCreate ==
    \E t \in Threads :
        \/ BrokerStep(t)
        \/ Publish(t, CreatePublishes)
        \/ Subscribe(t, CreateQueues)
        \/ Unsubscribe(t)
SpecCreate == Init /\ [][NextCreate]_vars

\* a sender that publishes with the default priority (publish(channel,
\* message) of either class) and a listener that subscribes, listens and
\* unsubscribes, on a PubSub() or a PubSubPriority() broker whose counter
\* does not wrap around
InitEqual ==
    \E priority \in BOOLEAN :
        InitBroker(priority, DefaultCapacity, PriorityId)
NextEqual ==
    \/ BrokerStep(Sender)
    \/ /\ Published < EqualPublishes
       /\ \E c \in Channels :
              publish_(Sender, c, PayloadOf[Sender], DefaultPriority)
    \/ BrokerStep(Listener) \/ Subscribe(Listener, EqualQueues)
    \/ Unsubscribe(Listener)
    \/ ListenStep(Listener) \/ Listen(Listener)
SpecEqual == InitEqual /\ [][NextEqual]_vars

\* the threads of tests/test_PubSub_load.py: a sender and a listener on
\* one channel, a sender and a listener on the other
OtherSender == "t3"
OtherListener == "t4"
LoadThreads == Threads \cup {OtherSender, OtherListener}

\* Sender.run: the message of the k-th publish, the last being 'End'
LoadMessage(k, last) == IF k = last THEN "End" ELSE PayloadOf[Sender]

\* the queues made for a channel
QueuesOn(channel) == {q \in DOMAIN queues : queues[q].name = channel}

\* Sender.run (lines 196-211 of the test): publish calls, one after the
\* other.  (The queue that Sender.__init__ subscribes is never read and,
\* below capacity, changes nothing for the other queues: it is left out.)
SenderRun(t, channel, messages) ==
    \/ BrokerStep(t)
    \/ /\ npub[channel] < messages
       /\ publish_(t, channel, LoadMessage(npub[channel] + 1, messages),
                   DefaultPriority)

\* the last message queue q has yielded is 'End'
Ended(q) == got[q] # <<>> /\ got[q][Len(got[q])].data = "End"

\* Listener.__init__ and Listener.run (lines 132, 144-159 of the test):
\* subscribe, then message = next(q.listen()), a blocking read, until
\* the message is 'End'
ListenerRun(t, channel) ==
    \/ BrokerStep(t)
    \/ QueuesOn(channel) = {} /\ subscribe_(t, channel)
    \/ \E q \in QueuesOn(channel) : ~Ended(q) /\ listen(t, q, TRUE)
    \/ listen_close(t)

\* a PubSub(max_queue_in_a_channel=100) broker with these four threads
InitLoad ==
    /\ max_queue_in_a_channel = DefaultCapacity
    /\ max_id_4_a_channel = IdWraparound
    /\ is_priority_queue = FALSE
    /\ channels = <<>>
    /\ count = <<>>
    /\ channels_lock = NoThread
    /\ count_lock = NoThread
    /\ queues = <<>>
    /\ pc = [t \in LoadThreads |-> "idle"]
    /\ local = [t \in LoadThreads |-> NoLocal]
    /\ npub = [c \in AllChannels |-> 0]
    /\ returned = {}
    /\ got = <<>>

LoadChannel == CHOOSE c \in Channels : TRUE

\* the sender that starts once the listener of its channel has subscribed
LoadSender ==
    /\ QueuesOn(LoadChannel) # {}
    /\ SenderRun(Sender, LoadChannel, LoadMessages)

NextLoad ==
    \/ LoadSender
    \/ ListenerRun(Listener, LoadChannel)
    \/ SenderRun(OtherSender, OtherChannel, OtherMessages)
    \/ ListenerRun(OtherListener, OtherChannel)

\* every thread that can run does run (the interpreter schedules every
\* thread; Lock.acquire and a blocking get return once they can)
LiveLoad ==
    /\ InitLoad
    /\ [][NextLoad]_vars
    /\ WF_vars(LoadSender)
    /\ WF_vars(ListenerRun(Listener, LoadChannel))
    /\ WF_vars(SenderRun(OtherSender, OtherChannel, OtherMessages))
    /\ WF_vars(ListenerRun(OtherListener, OtherChannel))

\* a sender that publishes with a negative, a zero or a positive priority
\* and a listener that subscribes once and listens, on a PubSubPriority()
\* broker
NextSign ==
    \/ BrokerStep(Sender)
    \/ /\ Published < SignPublishes
       /\ \E c \in Channels, p \in PriorityValues :
              publish_(Sender, c, PayloadOf[Sender], p)
    \/ BrokerStep(Listener) \/ SubscribeOnce(Listener)
    \/ ListenStep(Listener) \/ Listen(Listener)
SpecSign == InitPriority /\ [][NextSign]_vars

\* the sender and the listener of a PubSubPriority broker whose queues
\* hold QueueCapacity messages
InitPriorityFull == InitBroker(TRUE, QueueCapacity, PriorityId)
NextPriorityFull == SenderListener(FullPublishes)
SpecPriorityFull == InitPriorityFull /\ [][NextPriorityFull]_vars

\* two threads that publish, subscribe and unsubscribe on two channels
NextMix ==
    \E t \in Threads :
        \/ BrokerStep(t)
        \/ /\ Published < MixPublishes
           /\ \E c \in AllChannels :
                  publish_(t, c, PayloadOf[t], DefaultPriority)
        \/ /\ Subscribed < MixQueues
           /\ \E c \in AllChannels : subscribe_(t, c)
        \/ \E c \in AllChannels, q \in Handles : unsubscribe(t, c, q)
        \/ \E q \in Handles : queue_unsubscribe(t, q)
SpecMix == Init /\ [][NextMix]_vars

\* two threads that publish, subscribe and unsubscribe with valid
\* arguments, and every thread that is inside a call and can take a step
\* eventually takes one (the interpreter schedules every thread, and
\* Lock.acquire returns once the lock is free)
NextLocks ==
    \E t \in Threads :
        \/ BrokerStep(t)
        \/ Publish(t, LockPublishes)
        \/ Subscribe(t, LockQueues)
        \/ Unsubscribe(t)
LiveLocks ==
    /\ Init
    /\ [][NextLocks]_vars
    /\ \A t \in Threads : WF_vars(BrokerStep(t))

---------------------------------------------------------------------------
(* What a queue has received *)

\* the messages pending in queue q, in the order of its list of entries
PendingSeq(q) ==
    [i \in 1..Len(queues[q].items) |-> Yielded(queues[q].items[i])]

\* the messages queue q has yielded, in the order of its pulls
YieldedSeq(q) == [i \in 1..Len(got[q]) |-> Yielded(got[q][i])]

\* a FIFO queue's messages in the order it received them: those it has
\* yielded, then those pending
Log(q) == YieldedSeq(q) \o PendingSeq(q)

Range(seq) == {seq[i] : i \in 1..Len(seq)}

\* the messages queue q has received
Received(q) == Range(Log(q))

\* the threads that are in a publish call and have read their id
Stamping == {t \in Threads : pc[t] \in {"publish_loop", "publish_put"}}

---------------------------------------------------------------------------
(* C1 *)

\* C1: on every channel the counter holds (N - 1) mod max_id_4_a_channel
\* after N publishes have advanced it (the N-th publish, counted from 0,
\* commits N mod max_id_4_a_channel), there is no counter before the
\* first publish, and a publish that has just committed its value (it
\* still holds count_lock) has committed its own number modulo
\* max_id_4_a_channel.
C1_CounterIsPublishNumber ==
    /\ \A c \in Channels :
           IF npub[c] = 0 THEN c \notin DOMAIN count
           ELSE /\ c \in DOMAIN count
                /\ count[c] = (npub[c] - 1) % max_id_4_a_channel
                /\ count[c] \in 0..(max_id_4_a_channel - 1)
    /\ \A t \in Threads :
           pc[t] = "publish_uncount" =>
               count[local[t].channel] = local[t].pub % max_id_4_a_channel

\* the counter is back at 0 after max_id_4_a_channel + 1 publishes, the
\* last two of them committed while the other thread was still publishing
C1_Wrapped ==
    \E t \in Threads :
        /\ pc[t] = "publish_uncount"
        /\ local[t].pub = max_id_4_a_channel
        /\ count[local[t].channel] = 0
        /\ \E u \in Stamping : u # t

---------------------------------------------------------------------------
(* C2 *)

\* C2: while fewer than max_id_4_a_channel publishes have been made on a
\* channel, every message a queue of the channel has received carries the
\* value that its own publish committed (the number of that publish), so
\* two messages received from two different publishes carry different
\* ids.
C2_OwnIdPerPublish ==
    \A q1, q2 \in DOMAIN queues :
        (queues[q1].name = queues[q2].name
         /\ npub[queues[q1].name] < max_id_4_a_channel) =>
            \A m1 \in Received(q1), m2 \in Received(q2) :
                /\ m1.id = m1.pub
                /\ m1.pub # m2.pub => m1.id # m2.id

---------------------------------------------------------------------------
(* C3 *)

\* C3: the messages that the queues of a channel have received from one
\* publish call, and the message that call is about to put, all carry the
\* same id.
C3_OneIdPerPublish ==
    \A q1, q2 \in DOMAIN queues :
        queues[q1].name = queues[q2].name =>
            /\ \A m1 \in Received(q1), m2 \in Received(q2) :
                   m1.pub = m2.pub => m1.id = m2.id
            /\ \A t \in Threads, m \in Received(q1) :
                   (pc[t] = "publish_put"
                    /\ local[t].channel = queues[q1].name
                    /\ local[t].pub = m.pub) => Message(t).id = m.id

\* a publish has put its message into two queues, and between its
\* reading of the id and now another publish has advanced the counter
C3_TwoQueuesOneId ==
    \E t \in Threads, q1, q2 \in DOMAIN queues :
        /\ pc[t] = "publish_loop"
        /\ q1 # q2
        /\ \E m1 \in Received(q1), m2 \in Received(q2) :
               /\ m1.pub = local[t].pub
               /\ m2.pub = local[t].pub
               /\ m1.id = m2.id
        /\ npub[local[t].channel] > local[t].pub + 1
        /\ \E u \in Threads : pc[u] = "publish_id"

---------------------------------------------------------------------------
(* C4 *)

\* C4: once unsubscribe(channel, q) has completed, what q has received
\* (the messages it has yielded, then those pending) changes in one way
\* only: a publish that had started before the unsubscribe completed
\* puts its message.  A publish that started afterwards adds nothing, and
\* the messages queued before are not lost: listen moves them, in their
\* order, from the pending ones to the yielded ones.
C4_NoDeliveryAfterUnsubscribe ==
    [][\A q \in DOMAIN queues :
          Unsubscribed(q) =>
              \/ Log(q)' = Log(q)
              \/ \E t \in Threads :
                     /\ pc[t] = "publish_put"
                     /\ local[t].channel_queue = q
                     /\ q \notin local[t].gone
                     /\ Log(q)' = Append(Log(q), Message(t))]_vars

\* a queue has yielded, after its unsubscribe completed, a message queued
\* before, and a publish that started after the unsubscribe has put its
\* message into the other queue of the channel
C4_ReadAfterUnsubscribe ==
    \E q, r \in DOMAIN queues, t \in Threads :
        /\ Unsubscribed(q)
        /\ Len(got[q]) > queues[q].yielded
        /\ pc[t] = "publish_loop"
        /\ q \in local[t].gone
        /\ r # q
        /\ queues[r].name = queues[q].name
        /\ \E m \in Received(r) : m.pub = local[t].pub
        /\ \A m \in Received(q) : m.pub # local[t].pub

---------------------------------------------------------------------------
(* C5 *)

\* C5: the queue that subscribe appends to the channel's list is empty,
\* and no queue ever holds or yields the message of a publish call that
\* had returned before the subscribe call that made the queue started.
C5_NoReplay ==
    [][/\ \A q \in DOMAIN queues' \ DOMAIN queues :
              queues'[q].items = <<>>
       /\ \A q \in DOMAIN queues' :
              \A m \in Received(q)' :
                  <<queues'[q].name, m.pub>> \notin queues'[q].old]_vars

\* a queue made after a publish had returned has received a later message
C5_LateSubscriber ==
    \E q \in DOMAIN queues :
        /\ \E old \in queues[q].old : old[1] = queues[q].name
        /\ Received(q) # {}

---------------------------------------------------------------------------
(* C6 *)

\* the publishes of which queue q has received the message
PublishesOf(q) == {m.pub : m \in Received(q)}

\* the payloads queue q has received from the publishes in pubs, in the
\* order a FIFO queue yields them
PayloadsOf(q, pubs) ==
    LET Among(m) == m.pub \in pubs
        kept == SelectSeq(Log(q), Among)
    IN [i \in 1..Len(kept) |-> kept[i].data]

\* C6: two FIFO queues of one channel yield the payloads of the publishes
\* that reached both of them in the same order.
C6_SameOrderForAll ==
    \A q1, q2 \in DOMAIN queues :
        queues[q1].name = queues[q2].name =>
            LET both == PublishesOf(q1) \cap PublishesOf(q2)
            IN PayloadsOf(q1, both) = PayloadsOf(q2, both)

---------------------------------------------------------------------------
(* C7 *)

\* C7: before the counter wraps around, a FIFO queue yields its messages
\* in the order in which their publishes advanced the counter, with
\* strictly increasing ids.
C7_IncreasingIds ==
    \A q \in DOMAIN queues :
        npub[queues[q].name] <= max_id_4_a_channel =>
            \A i, j \in 1..Len(Log(q)) :
                i < j => /\ Log(q)[i].pub < Log(q)[j].pub
                         /\ Log(q)[i].id < Log(q)[j].id

---------------------------------------------------------------------------
(* C8 *)

\* the priorities of the publishes of test_messages_explicit_random_priority
ExamplePriorities == <<200, 50, 25, 400, 25>>

\* the pending entries are those of the five publishes of the example
IsExample(items) ==
    /\ Len(items) = Len(ExamplePriorities)
    /\ {items[i][2].pub : i \in 1..Len(items)} =
           0..(Len(ExamplePriorities) - 1)
    /\ \A i \in 1..Len(items) :
           items[i][1] = ExamplePriorities[items[i][2].pub + 1]

\* the ids of the entries in the order successive pulls return them
RECURSIVE DrainedIds(_)
DrainedIds(items) ==
    IF items = <<>> THEN <<>>
    ELSE <<QueueHead(items)[2].id>> \o DrainedIds(QueueRest(items))

\* the number of positions of seq that hold x
Occurrences(seq, x) == Cardinality({i \in 1..Len(seq) : seq[i] = x})

\* C8: every pull from a priority queue returns a pending entry whose
\* (priority, id) pair is least among the pending ones (lower priority
\* number first, then lower id) and leaves the other entries pending;
\* when the entries of publishes with priorities 200, 50, 25, 400, 25 are
\* pending, the pulls return them with ids 2, 4, 1, 0, 3.
C8_LeastPairFirst ==
    [][\A q \in DOMAIN queues :
          LET pending == queues[q].items
          IN /\ Len(got'[q]) > Len(got[q]) =>
                    LET e == got'[q][Len(got'[q])]
                    IN /\ got'[q] = Append(got[q], e)
                       /\ Occurrences(pending, e) > 0
                       /\ \A j \in 1..Len(pending) :
                              \/ e[1] < pending[j][1]
                              \/ /\ e[1] = pending[j][1]
                                 /\ e[2].id <= pending[j][2].id
                       /\ Len(queues'[q].items) = Len(pending) - 1
                       /\ \A j \in 1..Len(pending) :
                              Occurrences(queues'[q].items, pending[j]) =
                                  Occurrences(pending, pending[j])
                                  - (IF pending[j] = e THEN 1 ELSE 0)
             /\ IsExample(pending) =>
                    DrainedIds(pending) = <<2, 4, 1, 0, 3>>]_vars

\* the listener has pulled the five entries of the example, which were
\* pending together, in the order of ids 2, 4, 1, 0, 3
C8_ExampleDrained ==
    \E q \in DOMAIN queues :
        /\ IsExample(got[q])
        /\ [i \in 1..Len(got[q]) |-> got[q][i][1]] = <<25, 25, 50, 200, 400>>
        /\ [i \in 1..Len(got[q]) |-> got[q][i][2].id] = <<2, 4, 1, 0, 3>>
        /\ queues[q].items = <<>>

---------------------------------------------------------------------------
(* C9 *)

\* C9: the entry the next pull returns was published before every other
\* pending entry of the same priority, also when the counter has wrapped
\* around between their publishes.
C9_FifoWithinPriority ==
    \A q \in DOMAIN queues :
        LET pending == queues[q].items
        IN \A i \in 1..Len(pending) :
               pending[i][1] = QueueHead(pending)[1] =>
                   QueueHead(pending)[2].pub <= pending[i][2].pub

---------------------------------------------------------------------------
(* C10 *)

\* the message of the publish call of thread t is among those q received
HasMessageOf(q, t) ==
    \E m \in Received(q) :
        m.pub = local[t].pub /\ m.data = local[t].message

---------------------------------------------------------------------------
(* C11 *)

\* the queue the fan-out loop of thread t looks at in its next step
NextInLoop(t) == channels[local[t].channel][local[t].idx + 1]

\* thread t is about to test the next queue of the channel's list
AtQueue(t) ==
    /\ pc[t] = "publish_loop"
    /\ local[t].idx < Len(channels[local[t].channel])

---------------------------------------------------------------------------
(* C12 *)

\* C12: every queue holds at most max_queue_in_a_channel messages.
C12_QueueIsBounded ==
    \A q \in DOMAIN queues : qsize(q) <= max_queue_in_a_channel

---------------------------------------------------------------------------
(* C13 *)

\* C13: when a publish of the sender returns, every queue that has
\* received a message of an earlier publish of the sender (so it was in
\* the channel's list before this call started), has not been
\* unsubscribed, was never found at capacity by the call and is below
\* capacity has received the message.
C13_DeliversToSnapshot ==
    [][\A t \in Threads :
          (pc[t] = "publish_loop" /\ pc'[t] = "idle") =>
              \A q \in Listed(local[t].channel) :
                  (/\ \E m \in Received(q) : m.pub < local[t].pub
                   /\ ~Unsubscribed(q)
                   /\ q \notin local[t].warned
                   /\ qsize(q) < max_queue_in_a_channel) =>
                      HasMessageOf(q, t)]_vars

---------------------------------------------------------------------------
(* C14 *)

\* C14: no unsubscribe call ends with the error of a queue that is not in
\* the subscriber list of its channel.
C14_AbsentHandleIsNoError ==
    \A t \in Threads : pc[t] # "remove_raised"

---------------------------------------------------------------------------
(* C15 *)

\* the positions of a thread inside a publish call
InPublish ==
    {"publish_lock", "publish_unlock", "publish_count", "publish_uncount",
     "publish_id", "publish_loop", "publish_put"}

\* C15: every publish call that has started returns, whatever the queues
\* hold (no thread ever pulls from a queue here).
C15_PublishCompletes ==
    \A t \in Threads : (pc[t] \in InPublish) ~> (pc[t] = "idle")

\* a publish has been through the whole list of its channel and has found
\* every queue holding max_queue_in_a_channel messages or more
C15_AllQueuesFull ==
    \E t \in Threads :
        /\ pc[t] = "publish_loop"
        /\ local[t].idx = Len(channels[local[t].channel])
        /\ local[t].idx > 0
        /\ \A q \in Listed(local[t].channel) :
               /\ q \in local[t].warned
               /\ qsize(q) >= max_queue_in_a_channel

---------------------------------------------------------------------------
(* C16 *)

\* the positions of a thread inside a subscribe call
InSubscribe == {"subscribe_lock", "subscribe_unlock", "subscribe_append"}

\* the state of the broker and its queues, and the history of the publishes
broker == <<channels, count, channels_lock, count_lock, queues, npub,
            returned, got>>

\* thread t starts a call in this step and the call raises at label
Raises(t, label) ==
    /\ Outside(t)
    /\ pc'[t] = label
    /\ (pc[t] # label \/ local'[t] # local[t])

\* C16: a publish call raises at its argument checks exactly when its
\* channel or its payload is empty or None or its priority is negative:
\* a call that raises there has such an argument and has changed nothing
\* (no channel, no counter, no queue, no lock), and no call with such an
\* argument gets past the checks.
C16_PublishRejectsFirst ==
    [][\A t \in Threads :
          /\ Raises(t, "publish_raised") =>
                 /\ \/ local'[t].channel \in {"", None}
                    \/ local'[t].message \in {"", None}
                    \/ local'[t].priority < 0
                 /\ broker' = broker
          /\ (Outside(t) /\ pc'[t] \in InPublish) =>
                 /\ local'[t].channel \notin {"", None}
                 /\ local'[t].message \notin {"", None}
                 /\ local'[t].priority >= 0
                 /\ broker' = broker]_vars

\* a publish call with a negative priority has raised after an accepted
\* publish on the same channel: the channel, its counter and its queue
\* are those the accepted publish left
C16_RejectedAfterAccepted ==
    \E t \in Threads, q \in DOMAIN queues :
        /\ pc[t] = "publish_raised"
        /\ local[t].priority < 0
        /\ local[t].channel \in DOMAIN count
        /\ count[local[t].channel] = 0
        /\ queues[q].name = local[t].channel
        /\ qsize(q) = 1

---------------------------------------------------------------------------
(* C17 *)

\* C17: a subscribe call raises at its argument check exactly when its
\* channel is empty or None, and then creates neither a channel nor a
\* queue; an unsubscribe call that raises at its argument checks has an
\* empty or None channel or a None handle, and changes no subscriber list;
\* no channel has an empty or None name, and a list loses a queue only in
\* a step that unsubscribes that queue.
C17_SubscribeRejectsFirst ==
    [][/\ \A t \in Threads :
              /\ Raises(t, "subscribe_raised") =>
                     /\ local'[t].channel \in {"", None}
                     /\ broker' = broker
              /\ (Outside(t) /\ pc'[t] \in InSubscribe) =>
                     /\ local'[t].channel \notin {"", None}
                     /\ broker' = broker
              /\ Raises(t, "unsubscribe_raised") =>
                     /\ \/ local'[t].channel \in {"", None}
                        \/ local'[t].channel_queue = NoQueue
                     /\ broker' = broker
       /\ DOMAIN channels' \cap {"", None} = {}
       /\ \A c \in DOMAIN channels :
              \A q \in Listed(c) :
                  InList(channels'[c], q) \/ Unsubscribed(q)']_vars

\* a subscribe call with an empty or None channel has raised after an
\* accepted one: there is one channel, with the one queue in its list
C17_RejectedAfterAccepted ==
    \E t \in Threads, q \in DOMAIN queues :
        /\ pc[t] = "subscribe_raised"
        /\ local[t].channel \in {"", None}
        /\ DOMAIN channels = {queues[q].name}
        /\ channels[queues[q].name] = <<q>>
        /\ Len(queues) = 1

---------------------------------------------------------------------------
(* C18 *)

\* the step that ends a call or a pull of thread t with nothing yielded
EndsEmpty(t) == pc'[t] = "idle" /\ got' = got /\ queues' = queues

\* C18: whenever a queue is empty, whether it is in its channel's list or
\* not, a thread outside any call can take the step of listen(block=False)
\* on it, and a thread whose listen(block=False) on it has yielded can
\* take the step of the next pull; that step ends the call and yields
\* nothing.
C18_EmptyListenReturns ==
    \A t \in Threads, q \in DOMAIN queues :
        qsize(q) = 0 =>
            /\ Outside(t) => ENABLED (listen(t, q, FALSE) /\ EndsEmpty(t))
            /\ (/\ pc[t] = "listen"
                /\ local[t].channel_queue = q
                /\ ~local[t].block) =>
                   ENABLED (listen_next(t) /\ EndsEmpty(t))

\* a listen(block=False) call has drained a queue that has been
\* unsubscribed since and is about to pull from the empty queue
C18_EmptyAndUnsubscribed ==
    \E t \in Threads, q \in DOMAIN queues :
        /\ pc[t] = "listen"
        /\ local[t].channel_queue = q
        /\ ~local[t].block
        /\ qsize(q) = 0
        /\ Unsubscribed(q)
        /\ ~InList(channels[queues[q].name], q)

---------------------------------------------------------------------------
(* C19 *)

---------------------------------------------------------------------------
(* C20 *)

\* the positions at which queue q has received a message of the publish
\* call of thread t
CopiesOf(q, t) == {i \in 1..Len(Log(q)) : Log(q)[i].pub = local[t].pub}

---------------------------------------------------------------------------
(* C21 *)

\* thread t takes this step inside a publish call on channel c (the step
\* that starts the call included)
PublishStep(t, c) ==
    /\ <<pc[t], local[t]>>' # <<pc[t], local[t]>>
    /\ \/ pc[t] \in InPublish /\ local[t].channel = c
       \/ Outside(t) /\ pc'[t] \in InPublish /\ local'[t].channel = c

\* what the broker holds for channel c: its subscriber list and its
\* counter (None when there is none), and the queues made for it with
\* what they hold and have yielded
ChannelState(c) ==
    <<IF c \in DOMAIN channels THEN <<channels[c]>> ELSE None,
      IF c \in DOMAIN count THEN <<count[c]>> ELSE None,
      [q \in {r \in DOMAIN queues : queues[r].name = c} |->
          <<queues[q].items, got[q]>>],
      npub[c]>>

\* C21: every step of a publish call on a channel leaves the subscriber
\* list, the counter and the queues of every other channel as they are.
C21_OtherChannelUntouched ==
    [][\A t \in Threads, a, b \in AllChannels :
          (a # b /\ PublishStep(t, a)) =>
              ChannelState(b)' = ChannelState(b)]_vars

\* a publish on one channel has put its message into the queue of that
\* channel while the queue of the other channel holds the message of an
\* earlier publish and the counters of both channels are 0
C21_BothChannelsServed ==
    \E t \in Threads, qa, qb \in DOMAIN queues :
        /\ pc[t] = "publish_loop"
        /\ local[t].idx = 1
        /\ queues[qa].name = local[t].channel
        /\ queues[qb].name # local[t].channel
        /\ qsize(qa) = 1
        /\ qsize(qb) = 1
        /\ count[queues[qa].name] = 0
        /\ count[queues[qb].name] = 0

---------------------------------------------------------------------------
(* C22 *)

\* the positions of a publish call after the update of the counter
Counted == {"publish_uncount", "publish_id", "publish_loop", "publish_put"}

\* the publish calls on channel c that have passed validation and updated
\* the counter: those that have returned and those still in their loop
Validated(c) ==
    Cardinality({r \in returned : r[1] = c})
    + Cardinality({t \in Threads :
                      pc[t] \in Counted /\ local[t].channel = c})

\* C22: the counter of a channel has advanced once for every validated
\* publish on the channel, whether or not a queue received its message
\* (after k publishes it holds (k - 1) mod max_id_4_a_channel), and the
\* message a queue receives from the publish that follows k publishes
\* on its channel has id k mod max_id_4_a_channel.
C22_IdCountsPublishes ==
    /\ \A c \in AllChannels :
           IF Validated(c) = 0 THEN c \notin DOMAIN count
           ELSE count[c] = (Validated(c) - 1) % max_id_4_a_channel
    /\ \A q \in DOMAIN queues :
           \A m \in Received(q) : m.id = m.pub % max_id_4_a_channel

---------------------------------------------------------------------------
(* C23 *)

\* C23: a queue keeps the name it was made with, which is the channel
\* whose subscriber list it was appended to, and a step is a step of
\* q.unsubscribe() exactly when it is a step of unsubscribe(q.name, q) of
\* the broker: the two calls change the broker, the queues and the
\* caller in the same way.
C23_HandleUnsubscribesItsChannel ==
    [][/\ \A q \in DOMAIN queues : queues'[q].name = queues[q].name
       /\ \A q \in DOMAIN queues', c \in AllChannels :
              q \in Listed(c)' => queues'[q].name = c
       /\ \A t \in Threads, q \in DOMAIN queues :
              queue_unsubscribe(t, q) <=>
                  \E c \in AllChannels :
                      /\ c = queues[q].name
                      /\ unsubscribe(t, c, q)]_vars

\* the queue of the second channel has been unsubscribed while the first
\* channel exists and keeps its queue: the second channel's list is
\* empty, the first channel's list is as it was
C23_UnsubscribedFromOwnChannel ==
    \E qa, qb \in DOMAIN queues :
        /\ queues[qa].name \in Channels
        /\ queues[qb].name = OtherChannel
        /\ Unsubscribed(qb)
        /\ channels[OtherChannel] = <<>>
        /\ channels[queues[qa].name] = <<qa>>
        /\ qa < qb
        /\ pc[Listener] = "idle"

---------------------------------------------------------------------------
(* C24 *)

\* C24: a channel gets its subscriber list once, empty, and keeps it: a
\* step changes the list of a known channel only by appending one queue
\* or by removing one, and every queue a subscribe call has returned is
\* in the list of its channel until it is unsubscribed.
C24_ListCreatedOnce ==
    [][/\ \A c \in DOMAIN channels :
              /\ c \in DOMAIN channels'
              /\ \/ channels'[c] = channels[c]
                 \/ \E q \in DOMAIN queues' \ DOMAIN queues :
                        channels'[c] = Append(channels[c], q)
                 \/ \E q \in Listed(c) :
                        /\ channels'[c] = Remove(channels[c], q)
                        /\ Unsubscribed(q)'
       /\ \A c \in DOMAIN channels' \ DOMAIN channels : channels'[c] = <<>>
       /\ \A q \in DOMAIN queues' :
              ~Unsubscribed(q)' => InList(channels'[queues'[q].name], q)]_vars

\* two calls found the channel unknown; one of them created it and a
\* subscribe appended its queue; the other call now holds channels_lock,
\* has made the second test and has kept the list with that queue
C24_SecondTestKeptTheList ==
    \E t \in Threads, q \in DOMAIN queues :
        /\ pc[t] \in {"subscribe_unlock", "publish_unlock"}
        /\ channels_lock = t
        /\ queues[q].name = local[t].channel
        /\ ~Unsubscribed(q)
        /\ channels[local[t].channel] = <<q>>

---------------------------------------------------------------------------
(* C25 *)

\* the positions of a publish call from the reading of the id to the end
\* of the fan-out loop
FanOut == {"publish_id", "publish_loop", "publish_put"}

\* C25: a thread that has reached the fan-out loop of publish holds
\* neither channels_lock nor count_lock, so no put into a queue is made
\* with a lock held; a lock is held only by a thread between its acquire
\* and its release.
C25_NoLockInFanOut ==
    /\ \A t \in Threads :
           pc[t] \in FanOut => channels_lock # t /\ count_lock # t
    /\ channels_lock # NoThread =>
           pc[channels_lock] \in {"publish_unlock", "subscribe_unlock"}
    /\ count_lock # NoThread => pc[count_lock] = "publish_uncount"

\* a publish is about to put its message into a queue while the other
\* thread holds channels_lock
C25_PutWhileOtherHoldsLock ==
    \E t, u \in Threads :
        /\ t # u
        /\ pc[t] = "publish_put"
        /\ channels_lock = u

---------------------------------------------------------------------------
(* C26 *)

\* the messages of S in the order of their publishes
RECURSIVE InPublishOrder(_)
InPublishOrder(S) ==
    IF S = {} THEN <<>>
    ELSE LET m == CHOOSE m \in S : \A n \in S : m.pub <= n.pub
         IN <<m>> \o InPublishOrder(S \ {m})

\* the list of a PubSub broker's FIFO queue that has received and yielded
\* what queue q has: the pending messages in the order of their publishes
\* (the sender's calls are a sequence, so a queue receives in that order)
FifoItems(q) == InPublishOrder(Range(PendingSeq(q)))

\* C26: with every publish at the default priority and a counter that
\* does not wrap around, the queue of a PubSubPriority broker and the
\* queue of a PubSub broker go through the same steps: a put appends the
\* message (payload and id) to the FIFO list, a pull yields the head of
\* the FIFO list and leaves its tail, and no other step changes a queue;
\* the list of a PubSub broker's queue is that FIFO list itself.
C26_PriorityQueueIsFifo ==
    [][\A q \in DOMAIN queues :
          /\ Len(FifoItems(q)) = qsize(q)
          /\ ~is_priority_queue =>
                 FifoItems(q) = queues[q].items
          /\ \/ /\ queues'[q].items = queues[q].items
                /\ got'[q] = got[q]
             \/ \E t \in Threads :
                    /\ pc[t] = "publish_put"
                    /\ local[t].channel_queue = q
                    /\ local[t].priority = DefaultPriority
                    /\ FifoItems(q)' =
                           Append(FifoItems(q),
                                  [data |-> local[t].message,
                                   id |-> local[t].id,
                                   pub |-> local[t].pub])
                    /\ got'[q] = got[q]
             \/ /\ FifoItems(q) # <<>>
                /\ YieldedSeq(q)' =
                       Append(YieldedSeq(q), Head(FifoItems(q)))
                /\ FifoItems(q)' = Tail(FifoItems(q))]_vars

\* a PubSubPriority broker whose queue held the messages of three
\* publishes has yielded the first, then the second, and holds the third
C26_ThreeEqualPriorities ==
    \E q \in DOMAIN queues :
        /\ is_priority_queue
        /\ Len(got[q]) = 2
        /\ Yielded(got[q][1]).id = 0
        /\ Yielded(got[q][2]).id = 1
        /\ qsize(q) = 1
        /\ Len(got[q]) + qsize(q) = EqualPublishes
        /\ \A i \in 1..qsize(q) :
               queues[q].items[i][1] = DefaultPriority
        /\ pc[Sender] = "idle"

---------------------------------------------------------------------------
(* C27 *)

\* the payloads the sender publishes, in the order of its calls
LoadPayloads == [k \in 1..LoadMessages |-> LoadMessage(k, LoadMessages)]

\* the number and the payload of each message queue q has yielded
Reads(q) == [i \in 1..Len(got[q]) |-> <<got[q][i].pub, got[q][i].data>>]

\* the listener has read every message of the sender, in the order of
\* the publishes, and has stopped at 'End'
ListenerDone ==
    \E q \in QueuesOn(LoadChannel) :
        /\ Reads(q) = [k \in 1..LoadMessages |-> <<k - 1, LoadPayloads[k]>>]
        /\ Ended(q)
        /\ qsize(q) = 0
        /\ pc[Listener] = "idle"
        /\ ~ENABLED ListenerRun(Listener, LoadChannel)

---------------------------------------------------------------------------
(* C28 *)

\* C28: every message a queue of the broker yields has id 0, whatever
\* the number of publishes on its channel.  (PubSubBase.__init__ has the
\* parameters max_queue_in_a_channel and max_id_4_a_channel only, and no
\* field of the broker switches the counter off: the brokers of this
\* model are all the brokers the constructor builds.)
C28_EveryIdIsZero ==
    \A q \in DOMAIN queues :
        \A i \in 1..Len(got[q]) : Yielded(got[q][i]).id = 0

---------------------------------------------------------------------------
(* C29 *)

---------------------------------------------------------------------------
(* C30 *)

\* C30: a publish call whose channel and priority pass their checks
\* raises only when its payload is None, and the message a publish puts
\* into a queue carries the payload of the call unchanged.
C30_OnlyNonePayloadRejected ==
    [][\A t \in Threads :
          /\ (/\ Raises(t, "publish_raised")
              /\ ~Falsy(local'[t].channel)
              /\ local'[t].priority >= 0) => local'[t].message = None
          /\ (pc[t] = "publish_put" /\ pc'[t] # "publish_put") =>
                 \E m \in Received(local[t].channel_queue)' :
                     m.pub = local[t].pub /\ m.data = local[t].message]_vars

---------------------------------------------------------------------------
(* C31 *)

\* the list without the queue q, the other queues in their order
Without(list, q) ==
    LET Other(x) == x # q IN SelectSeq(list, Other)

\* C31: an unsubscribe(channel, q) call that returns normally takes q out
\* of the list of that channel and changes nothing else: the other queues
\* of the list keep their places, the other lists, the known channels,
\* the counters and the locks are as they were, and every queue, q
\* included, holds and has yielded what it did.
C31_UnsubscribeRemovesOnlyTheQueue ==
    [][\A t \in Threads, c \in AllChannels, q \in DOMAIN queues :
          (unsubscribe(t, c, q) /\ pc'[t] = "idle") =>
              /\ DOMAIN channels' = DOMAIN channels
              /\ \A d \in DOMAIN channels :
                     channels'[d] = IF d = c THEN Without(channels[d], q)
                                    ELSE channels[d]
              /\ count' = count
              /\ locks' = locks
              /\ DOMAIN queues' = DOMAIN queues
              /\ \A r \in DOMAIN queues :
                     /\ queues'[r].items = queues[r].items
                     /\ queues'[r].name = queues[r].name
              /\ got' = got]_vars

\* of the two queues of a channel the first, which holds a message, has
\* been unsubscribed; the second is the channel's list, and the counter
\* is the one the publish left
C31_OneOfTwoUnsubscribed ==
    \E q, r \in DOMAIN queues :
        /\ q < r
        /\ queues[q].name = queues[r].name
        /\ Unsubscribed(q)
        /\ qsize(q) = 1
        /\ channels[queues[q].name] = <<r>>
        /\ count[queues[q].name] = 0
        /\ \A t \in Threads : pc[t] = "idle"

---------------------------------------------------------------------------
(* C32 *)

\* every subscribe call returns a queue that no earlier call returned,
\* appended to the list of its channel, in which no queue is twice; an
\* unsubscribe takes out of the list the queue it is given and no other
DistinctQueues ==
    /\ \A q \in DOMAIN queues' \ DOMAIN queues :
           /\ q \notin UNION {Listed(c) : c \in AllChannels}
           /\ channels'[queues'[q].name] =
                  Append(channels[queues'[q].name], q)
    /\ \A c \in DOMAIN channels' :
           \A i, j \in 1..Len(channels'[c]) :
               channels'[c][i] = channels'[c][j] => i = j
    /\ \A c \in DOMAIN channels :
           \A q \in Listed(c) \ Listed(c)' :
               /\ Unsubscribed(q)'
               /\ Listed(c)' = Listed(c) \ {q}

\* when a publish of the sender returns, every queue that was subscribed
\* before the call started (it has received an earlier publish), is
\* still subscribed and was not found at capacity has received the
\* message, whatever was unsubscribed meanwhile
KeepsReceiving ==
    \A t \in Threads :
        (pc[t] = "publish_loop" /\ pc'[t] = "idle") =>
            \A q \in Listed(local[t].channel) :
                (/\ ~Unsubscribed(q)
                 /\ q \notin local[t].warned
                 /\ \E m \in Received(q) : m.pub < local[t].pub) =>
                    \E m \in Received(q) : m.pub = local[t].pub

\* C32: the queues that subscribe calls return are distinct, each one
\* receives the publishes that start after its subscribe, an unsubscribe
\* removes the queue it is given and no other, and the queues that stay
\* subscribed keep receiving.
C32_TwoSubscribersAreIndependent ==
    [][DistinctQueues /\ KeepsReceiving]_vars

---------------------------------------------------------------------------
(* C33 *)

---------------------------------------------------------------------------
(* C34 *)

\* C34: whatever subscribe and unsubscribe calls run during a fan-out
\* loop, a queue changes only in the put of a publish on the channel the
\* queue was made for, which adds the message of that publish to that
\* queue alone, and no queue holds two messages of one publish.
C34_OneCopyFromOwnChannel ==
    [][\A q \in DOMAIN queues :
          /\ queues'[q].items # queues[q].items =>
                 \E t \in Threads :
                     /\ pc[t] = "publish_put"
                     /\ local[t].channel_queue = q
                     /\ local[t].channel = queues[q].name
                     /\ queues'[q].items =
                            Append(queues[q].items, Message(t))
                     /\ \A r \in DOMAIN queues \ {q} :
                            queues'[r].items = queues[r].items
          /\ \A i, j \in 1..Len(queues'[q].items) :
                 queues'[q].items[i].pub = queues'[q].items[j].pub => i = j
          /\ \A i \in 1..Len(queues'[q].items) :
                 queues'[q].items[i].pub < npub'[queues'[q].name]]_vars

\* a publish has put its message into the first queue of the list, that
\* queue was unsubscribed during the loop, and the list is now the queue
\* that was second, which holds nothing
C34_ListChangedDuringFanOut ==
    \E t \in Threads, q, r \in DOMAIN queues :
        /\ pc[t] = "publish_loop"
        /\ local[t].idx = 1
        /\ q < r
        /\ queues[q].name = local[t].channel
        /\ Unsubscribed(q)
        /\ q \notin local[t].gone
        /\ HasMessageOf(q, t)
        /\ channels[local[t].channel] = <<r>>
        /\ qsize(r) = 0

---------------------------------------------------------------------------
(* C35 *)

\* the positions at which a thread holds channels_lock, and count_lock
HoldsChannelsLock == {"publish_unlock", "subscribe_unlock"}
HoldsCountLock == {"publish_uncount"}

\* C35: no thread holds channels_lock and count_lock together; a lock is
\* held exactly by a thread that is between the acquire and the release
\* of one call, so no thread outside a call holds a lock; and every call
\* of publish, subscribe and unsubscribe that has started ends.
C35_LocksReleasedCallsEnd ==
    /\ [](\A t \in Threads :
             /\ ~(channels_lock = t /\ count_lock = t)
             /\ channels_lock = t <=> pc[t] \in HoldsChannelsLock
             /\ count_lock = t <=> pc[t] \in HoldsCountLock
             /\ Outside(t) => channels_lock # t /\ count_lock # t)
    /\ \A t \in Threads : (~Outside(t)) ~> Outside(t)

\* one thread holds channels_lock and the other count_lock, while the
\* channel has a queue
C35_BothLocksTaken ==
    \E t, u \in Threads :
        /\ t # u
        /\ channels_lock = t
        /\ count_lock = u
        /\ pc[t] = "publish_unlock"
        /\ Len(queues) > 0

===========================================================================
